---- MODULE Spec2Model ----
(***************************************************************************)
(* Inventario de Joyeria (app.py): a Streamlit script over a CSV file.     *)
(* Every user interaction runs the whole script once: cargar_datos (behind *)
(* st.cache_data), the filter/sort view, the low-stock section, the data   *)
(* editor and the two button handlers.  One action of this module is one   *)
(* such interaction, the script run it triggers included.                  *)
(*                                                                         *)
(* Text is a sequence of one-character strings, so that str.contains,      *)
(* pd.to_numeric and the ordering of names are computed, not assumed.      *)
(* A cell is a tagged record: Entero(n), Texto(s) or Nulo (NaN/None).      *)
(***************************************************************************)
EXTENDS Integers, Sequences, FiniteSets, TLC

VARIABLES
    archivo,               \* inventario_joyas.csv: [existe, cols, rows]
    cache,                 \* st.cache_data entry of cargar_datos: [valida, df, msg]
    df_inventario,         \* app.py:84
    texto_busqueda,        \* app.py:92
    columna_orden,         \* app.py:98
    orden_ascendente,      \* app.py:102
    df_filtrado,           \* app.py:93-103
    productos_bajo_stock,  \* app.py:113-115
    df_editado,            \* app.py:131, the editor grid with the user's edits
    fase,                  \* how far the last script run rendered
    evento,                \* the interaction that triggered the last handler
    resultado,             \* the message the last handler showed
    leyo,                  \* the last handler read the CSV file (pd.read_csv ran)
    invocado,              \* enviar_alerta was called in the last handler
    conexiones,            \* SMTP connections opened by the last handler
    entregado,             \* s.sendmail completed in the last handler
    cuerpo,                \* body of the message built by the last handler
    ediciones              \* edits made in the grid so far

vars == <<archivo, cache, df_inventario, texto_busqueda, columna_orden,
          orden_ascendente, df_filtrado, productos_bajo_stock, df_editado,
          fase, evento, resultado, leyo, invocado, conexiones, entregado,
          cuerpo, ediciones>>

----------------------------------------------------------------------------
(* Bounds of the model *)

MaxFilas == 2

MaxEdiciones == 1

----------------------------------------------------------------------------
(* Cells, text and tables *)

Entero(n) == [t |-> "int", n |-> n, s |-> <<>>]

Texto(s) == [t |-> "str", n |-> 0, s |-> s]

Nulo == [t |-> "nan", n |-> 0, s |-> <<>>]

COLUMNAS == <<"ID", "Nombre", "Cantidad", "Precio_COP", "Stock_Minimo">>

NUMERICAS == <<"Cantidad", "Precio_COP", "Stock_Minimo">>

OPCIONES_ORDEN == {"Nombre", "Cantidad", "Precio_COP", "Stock_Minimo"}

Rango(s) == {s[i] : i \in 1..Len(s)}

\* Characters in code-point order (the order Python compares str by).
CARACTERES == <<"-", "0", "1", "2", "3", "4", "5", "6", "7", "8", "9",
                "A", "N", "a", "b", "c", "n", "o", "r", "x">>

Codigo(c) == CHOOSE i \in 1..Len(CARACTERES) : CARACTERES[i] = c

Minuscula(c) == CASE c = "A" -> "a" [] c = "N" -> "n" [] OTHER -> c

Minusculas(s) == [i \in 1..Len(s) |-> Minuscula(s[i])]

\* s < t for Python str
RECURSIVE MenorCadena(_, _)
MenorCadena(s, t) ==
    IF t = <<>> THEN FALSE
    ELSE IF s = <<>> THEN TRUE
    ELSE IF s[1] # t[1] THEN Codigo(s[1]) < Codigo(t[1])
    ELSE MenorCadena(Tail(s), Tail(t))

Subcadena(aguja, s) ==
    \E k \in 0..(Len(s) - Len(aguja)) :
        \A j \in 1..Len(aguja) : s[k + j] = aguja[j]

\* pd.DataFrame(columns=COLUMNAS)
DataFrameVacio == [cols |-> COLUMNAS, rows |-> <<>>]

\* DataFrame.empty: some axis has length 0
Empty(df) == df.rows = <<>> \/ df.cols = <<>>

----------------------------------------------------------------------------
(* CSV file: pd.read_csv and DataFrame.to_csv(index=False) *)

\* A missing value is written as an empty field.
CampoCsv(c) == IF c.t = "nan" THEN Texto(<<>>) ELSE c

\* An empty field is read as a missing value.
CeldaCsv(f) == IF f.t = "str" /\ f.s = <<>> THEN Nulo ELSE f

AUSENTE == [existe |-> FALSE, cols |-> <<>>, rows |-> <<>>]

to_csv(df) ==
    [existe |-> TRUE,
     cols   |-> df.cols,
     rows   |-> [i \in 1..Len(df.rows) |->
                    [c \in Rango(df.cols) |-> CampoCsv(df.rows[i][c])]]]

read_csv(a) ==
    [cols |-> a.cols,
     rows |-> [i \in 1..Len(a.rows) |->
                  [c \in Rango(a.cols) |-> CeldaCsv(a.rows[i][c])]]]

\* Series.astype(int) raises on a missing value and on text that is no number.
AstypeIntFalla(df, col) ==
    \/ col \notin Rango(df.cols)
    \/ \E i \in 1..Len(df.rows) : df.rows[i][col].t # "int"

\* Variant of guardar_datos that writes the five columns of COLUMNAS only.
guardar_datos_columnas_fijas(df) ==
    to_csv([cols |-> COLUMNAS,
            rows |-> [i \in 1..Len(df.rows) |->
                         [c \in Rango(COLUMNAS) |-> df.rows[i][c]]]])

guardar_datos(df) == to_csv(df)

cargar_datos(a) ==
    IF ~a.existe
    THEN [df |-> DataFrameVacio, msg |-> "fuente_ausente"]
    ELSE LET df == read_csv(a) IN
         IF \E k \in 1..Len(NUMERICAS) : AstypeIntFalla(df, NUMERICAS[k])
         THEN [df |-> DataFrameVacio, msg |-> "error_carga"]
         ELSE [df |-> df, msg |-> "ok"]

CacheLimpia == [valida |-> FALSE, df |-> DataFrameVacio, msg |-> "ninguno"]

\* @st.cache_data: the function body runs only on a cache miss.
cargar_datos_cache(cch, a) ==
    IF cch.valida
    THEN [cache |-> cch, df |-> cch.df, leyo |-> FALSE]
    ELSE LET r == cargar_datos(a) IN
         [cache |-> [valida |-> TRUE, df |-> r.df, msg |-> r.msg],
          df |-> r.df, leyo |-> TRUE]

----------------------------------------------------------------------------
(* Query: the name filter and the sort of the display path *)

\* Series.str.contains(aguja, case=False, na=False) on one cell
Contiene(celda, aguja) ==
    IF celda.t = "str"
    THEN Subcadena(Minusculas(aguja), Minusculas(celda.s))
    ELSE FALSE

\* The .str accessor raises AttributeError unless the column holds text:
\* a column read with no text in it is numeric (float64 when all is missing).
\* A missing column raises KeyError.
FiltroFalla(df) ==
    \/ "Nombre" \notin Rango(df.cols)
    \/ /\ df.rows # <<>>
       /\ \A i \in 1..Len(df.rows) : df.rows[i]["Nombre"].t # "str"

\* df_inventario[df_inventario['Nombre'].str.contains(...)]
Filtrar(df, aguja) ==
    [cols |-> df.cols,
     rows |-> SelectSeq(df.rows, LAMBDA r : Contiene(r["Nombre"], aguja))]

\* Key a strictly before key b in the requested direction; missing keys go
\* last in both directions (na_position='last').
Antes(a, b, asc) ==
    IF a.t = "nan" THEN FALSE
    ELSE IF b.t = "nan" THEN TRUE
    ELSE IF a.t = "int" /\ b.t = "int"
         THEN IF asc THEN a.n < b.n ELSE a.n > b.n
         ELSE IF asc THEN MenorCadena(a.s, b.s) ELSE MenorCadena(b.s, a.s)

\* r goes before the first row that must follow it, after its equals.
RECURSIVE Insertar(_, _, _, _)
Insertar(r, orden, col, asc) ==
    IF orden = <<>> THEN <<r>>
    ELSE IF Antes(r[col], orden[1][col], asc) THEN <<r>> \o orden
    ELSE <<orden[1]>> \o Insertar(r, Tail(orden), col, asc)

RECURSIVE OrdenarFilas(_, _, _)
OrdenarFilas(rows, col, asc) ==
    IF rows = <<>> THEN <<>>
    ELSE Insertar(rows[Len(rows)],
                  OrdenarFilas(SubSeq(rows, 1, Len(rows) - 1), col, asc),
                  col, asc)

\* DataFrame.sort_values(by=col, ascending=asc): a new frame; on the few rows
\* of this model the default sort keeps equal keys in their original order.
sort_values(df, col, asc) ==
    [cols |-> df.cols, rows |-> OrdenarFilas(df.rows, col, asc)]

\* app.py:93-103
VistaFiltrada(df, aguja, col, asc) == sort_values(Filtrar(df, aguja), col, asc)

----------------------------------------------------------------------------
(* Low-stock section and the alert *)

\* Variant of ProductosBajoStock with a strict comparison.
ProductosBajoStockEstricto(df) ==
    sort_values(
        [cols |-> df.cols,
         rows |-> SelectSeq(df.rows,
                     LAMBDA r : r["Cantidad"].n < r["Stock_Minimo"].n)],
        "Cantidad", TRUE)

\* app.py:113-115
ProductosBajoStock(df) ==
    sort_values(
        [cols |-> df.cols,
         rows |-> SelectSeq(df.rows,
                     LAMBDA r : r["Cantidad"].n <= r["Stock_Minimo"].n)],
        "Cantidad", TRUE)

\* Variant of BotonAlertaVisible that always draws the button.
BotonAlertaSiempre(pbs) == TRUE

\* app.py:118-124: the send button is drawn only in the else branch
BotonAlertaVisible(pbs) == ~Empty(pbs)

\* f"{int(precio):,}".replace(",", "."): the groups of three digits, most
\* significant first, of the absolute value.
RECURSIVE Miles(_)
Miles(n) == IF n < 1000 THEN <<n>> ELSE Miles(n \div 1000) \o <<n % 1000>>

FormatoPrecio(n) ==
    [negativo |-> n < 0, grupos |-> Miles(IF n < 0 THEN 0 - n ELSE n)]

\* One line of the body per low-stock product (app.py:57-63).
LineasCuerpo(pbs) ==
    [i \in 1..Len(pbs.rows) |->
        [nombre |-> pbs.rows[i]["Nombre"],
         stock  |-> pbs.rows[i]["Cantidad"].n,
         minimo |-> pbs.rows[i]["Stock_Minimo"].n,
         precio |-> FormatoPrecio(pbs.rows[i]["Precio_COP"].n)]]

\* What can happen inside the with-block of app.py:71-74; "quit" is the QUIT
\* that SMTP.__exit__ sends after sendmail succeeded.
PASOS_SMTP == {"connect", "starttls", "login", "sendmail", "quit"}

SALIDAS_SMTP == PASOS_SMTP \cup {"ok"}

\* Variant of enviar_alerta that connects a second time after a failure.
enviar_alerta_reintenta(pbs, falla) ==
    IF Empty(pbs)
    THEN [conexiones |-> 0, entregado |-> FALSE, cuerpo |-> <<>>,
          resultado |-> "ninguno"]
    ELSE [conexiones |-> IF falla = "ok" THEN 1 ELSE 2,
          entregado  |-> falla \in {"quit", "ok"},
          cuerpo     |-> LineasCuerpo(pbs),
          resultado  |-> IF falla = "ok" THEN "correo_enviado"
                         ELSE "error_correo"]

\* enviar_alerta(productos_df) with the step at which the relay fails
\* ("ok": none does).
enviar_alerta(pbs, falla) ==
    IF Empty(pbs)
    THEN [conexiones |-> 0, entregado |-> FALSE, cuerpo |-> <<>>,
          resultado |-> "ninguno"]
    ELSE [conexiones |-> 1,
          entregado  |-> falla \in {"quit", "ok"},
          cuerpo     |-> LineasCuerpo(pbs),
          resultado  |-> IF falla = "ok" THEN "correo_enviado"
                         ELSE "error_correo"]

----------------------------------------------------------------------------
(* Edit validation and coercion of the save handler *)

EsDigito(c) == Codigo(c) \in 2..11

RECURSIVE ValorDigitos(_)
ValorDigitos(s) ==
    IF s = <<>> THEN 0
    ELSE 10 * ValorDigitos(SubSeq(s, 1, Len(s) - 1)) + (Codigo(s[Len(s)]) - 2)

EsNumero(s) ==
    LET d == IF s # <<>> /\ s[1] = "-" THEN Tail(s) ELSE s IN
    d # <<>> /\ \A i \in 1..Len(d) : EsDigito(d[i])

ValorNumero(s) ==
    IF s[1] = "-" THEN 0 - ValorDigitos(Tail(s)) ELSE ValorDigitos(s)

\* pd.to_numeric(x, errors='coerce'): what does not parse becomes NaN
to_numeric(c) ==
    CASE c.t = "int" -> c
      [] c.t = "str" -> IF EsNumero(c.s) THEN Entero(ValorNumero(c.s)) ELSE Nulo
      [] OTHER -> Nulo

\* Variant of fillna0 that leaves the missing value in place.
fillna0_omitido(c) == c

\* Series.fillna(0)
fillna0(c) == IF c.t = "nan" THEN Entero(0) ELSE c

\* app.py:144-146 on one cell
CoercionCelda(c) == fillna0(to_numeric(c))

Coercionar(df) ==
    [cols |-> df.cols,
     rows |-> [i \in 1..Len(df.rows) |->
                  [c \in Rango(df.cols) |->
                      IF c \in Rango(NUMERICAS)
                      THEN CoercionCelda(df.rows[i][c])
                      ELSE df.rows[i][c]]]]

\* Variant of ColumnasCompletas with any() in place of all().
ColumnasAlguna(df) ==
    \E k \in 1..Len(COLUMNAS) : COLUMNAS[k] \in Rango(df.cols)

\* app.py:140: all(col in df_editado.columns for col in COLUMNAS)
ColumnasCompletas(df) ==
    \A k \in 1..Len(COLUMNAS) : COLUMNAS[k] \in Rango(df.cols)

\* Variant of LimpiarCache that leaves the entry in place.
LimpiarCacheOmitida(cch) == cch

\* app.py:150: st.cache_data.clear()
LimpiarCache(cch) == CacheLimpia

\* The body of the save button (app.py:138-154) up to st.rerun();
\* falla: DataFrame.to_csv raises (the file cannot be written).
Guardar(df, a, cch, falla) ==
    IF ~ColumnasCompletas(df)
    THEN [archivo |-> a, cache |-> cch, rerun |-> FALSE,
          resultado |-> "columnas_faltantes"]
    ELSE IF falla
    THEN [archivo |-> a, cache |-> cch, rerun |-> FALSE,
          resultado |-> "error_guardar"]
    ELSE [archivo |-> guardar_datos(Coercionar(df)),
          cache |-> LimpiarCache(cch), rerun |-> TRUE,
          resultado |-> "guardado"]

----------------------------------------------------------------------------
(* One run of the script, from cargar_datos to the editor *)

SinTabla == [cols |-> <<>>, rows |-> <<>>]

\* Variant of SeccionesVisibles without the empty-table guard.
SeccionesSiempre(df) == TRUE

\* app.py:86
SeccionesVisibles(df) == ~Empty(df)

Corrida(a, cch, aguja, col, asc) ==
    LET c == cargar_datos_cache(cch, a) IN
    IF ~SeccionesVisibles(c.df)
    THEN [cache |-> c.cache, df |-> c.df, leyo |-> c.leyo, fase |-> "vacio",
          df_filtrado |-> SinTabla, pbs |-> SinTabla]
    ELSE IF FiltroFalla(c.df)
    THEN [cache |-> c.cache, df |-> c.df, leyo |-> c.leyo,
          fase |-> "excepcion", df_filtrado |-> SinTabla, pbs |-> SinTabla]
    ELSE [cache |-> c.cache, df |-> c.df, leyo |-> c.leyo,
          fase |-> "completo",
          df_filtrado |-> VistaFiltrada(c.df, aguja, col, asc),
          pbs |-> ProductosBajoStock(c.df)]

\* The state a run leaves, with no button pressed in it.
Mostrar(c, a, aguja, col, asc, editor, ev, eds) ==
    /\ archivo' = a
    /\ cache' = c.cache
    /\ df_inventario' = c.df
    /\ texto_busqueda' = aguja
    /\ columna_orden' = col
    /\ orden_ascendente' = asc
    /\ df_filtrado' = c.df_filtrado
    /\ productos_bajo_stock' = c.pbs
    /\ df_editado' = editor
    /\ fase' = c.fase
    /\ evento' = ev
    /\ leyo' = c.leyo
    /\ ediciones' = eds

SinCorreo ==
    /\ invocado' = FALSE
    /\ conexiones' = 0
    /\ entregado' = FALSE
    /\ cuerpo' = <<>>

----------------------------------------------------------------------------
(* Inputs of the model *)

Anillo == <<"A", "n">>

Aro == <<"a", "r", "o">>

Fila(id, nombre, cantidad, precio, minimo) ==
    [c \in Rango(COLUMNAS) |->
        CASE c = "ID" -> id
          [] c = "Nombre" -> nombre
          [] c = "Cantidad" -> cantidad
          [] c = "Precio_COP" -> precio
          [] OTHER -> minimo]

Csv(cols, rows) ==
    [existe |-> TRUE, cols |-> cols,
     rows |-> [i \in 1..Len(rows) |-> [c \in Rango(cols) |-> rows[i][c]]]]

FilaAnillo == Fila(Entero(1), Texto(Anillo), Entero(2), Entero(50000), Entero(5))

FilaAro == Fila(Entero(2), Texto(Aro), Entero(1), Entero(700), Entero(1))

FilaCollar == Fila(Entero(5), Texto(Aro), Entero(3), Entero(1200), Entero(1))

FilaSinNombre == Fila(Entero(3), Texto(<<>>), Entero(0), Entero(0), Entero(0))

FilaMala == Fila(Entero(4), Texto(Aro), Texto(<<"x">>), Entero(1), Entero(1))

FilaNotas == [c \in Rango(COLUMNAS) \cup {"Notas"} |->
                 IF c = "Notas" THEN Texto(<<"x">>) ELSE FilaCollar[c]]

\* The files a session can start from: absent, header only, well formed,
\* with an extra column and another column order, with a column missing,
\* with no name at all, with text in a numeric column.
ArchivosIniciales ==
    { AUSENTE,
      Csv(COLUMNAS, <<>>),
      Csv(COLUMNAS, <<FilaAnillo, FilaAro>>),
      Csv(<<"Nombre", "Notas", "ID", "Stock_Minimo", "Precio_COP", "Cantidad">>,
          <<FilaNotas>>),
      Csv(<<"Nombre", "Cantidad", "Precio_COP", "Stock_Minimo">>, <<FilaAnillo>>),
      Csv(<<"ID", "Cantidad", "Precio_COP", "Stock_Minimo">>, <<FilaAro>>),
      Csv(<<"ID", "Nombre", "Precio_COP", "Stock_Minimo">>, <<FilaAro>>),
      Csv(COLUMNAS, <<FilaSinNombre>>),
      Csv(COLUMNAS, <<FilaMala>>) }

Agujas == {<<>>, <<"N">>}

\* What the user can type into a cell of the grid: a negative number, text
\* that is no number, text that is one; a new name.
ValoresEdicion(col) ==
    CASE col = "Cantidad" ->
            {Entero(0 - 1), Texto(<<"a", "b", "c">>), Texto(<<"7">>)}
      [] col = "Precio_COP" -> {Texto(<<"a", "b", "c">>)}
      [] col = "Stock_Minimo" -> {Entero(0 - 1)}
      [] col = "Nombre" -> {Texto(<<"b">>)}
      [] OTHER -> {}

----------------------------------------------------------------------------
(* Initial state: the first run of the script, on an empty cache *)

Init ==
    \E a \in ArchivosIniciales :
        LET c == Corrida(a, CacheLimpia, <<>>, "Nombre", TRUE) IN
        /\ archivo = a
        /\ cache = c.cache
        /\ df_inventario = c.df
        /\ texto_busqueda = <<>>
        /\ columna_orden = "Nombre"
        /\ orden_ascendente = TRUE
        /\ df_filtrado = c.df_filtrado
        /\ productos_bajo_stock = c.pbs
        /\ df_editado = c.df
        /\ fase = c.fase
        /\ evento = "inicio"
        /\ resultado = "ninguno"
        /\ leyo = c.leyo
        /\ invocado = FALSE
        /\ conexiones = 0
        /\ entregado = FALSE
        /\ cuerpo = <<>>
        /\ ediciones = 0

----------------------------------------------------------------------------
(* Interactions *)

\* A new browser session: the script runs with fresh widgets; the
\* st.cache_data entry is shared by the process and survives.
NuevaSesion ==
    LET c == Corrida(archivo, cache, <<>>, "Nombre", TRUE) IN
    /\ Mostrar(c, archivo, <<>>, "Nombre", TRUE, c.df, "sesion", ediciones)
    /\ resultado' = "ninguno"
    /\ SinCorreo

\* app.py:92: the text box is drawn before the filter is evaluated.
CambiarBusqueda(aguja) ==
    /\ fase \in {"completo", "excepcion"}
    /\ aguja # texto_busqueda
    /\ LET c == Corrida(archivo, cache, aguja, columna_orden, orden_ascendente) IN
       Mostrar(c, archivo, aguja, columna_orden, orden_ascendente,
               df_editado, "busqueda", ediciones)
    /\ resultado' = "ninguno"
    /\ SinCorreo

\* app.py:98-103
CambiarOrden(col, asc) ==
    /\ fase = "completo"
    /\ <<col, asc>> # <<columna_orden, orden_ascendente>>
    /\ LET c == Corrida(archivo, cache, texto_busqueda, col, asc) IN
       Mostrar(c, archivo, texto_busqueda, col, asc, df_editado, "orden",
               ediciones)
    /\ resultado' = "ninguno"
    /\ SinCorreo

\* app.py:124-125
ClicEnviarAlerta(falla) ==
    /\ fase = "completo"
    /\ BotonAlertaVisible(productos_bajo_stock)
    /\ LET c == Corrida(archivo, cache, texto_busqueda, columna_orden,
                        orden_ascendente)
           e == enviar_alerta(c.pbs, falla)
       IN /\ Mostrar(c, archivo, texto_busqueda, columna_orden,
                     orden_ascendente, df_editado, "alerta", ediciones)
          /\ resultado' = e.resultado
          /\ invocado' = TRUE
          /\ conexiones' = e.conexiones
          /\ entregado' = e.entregado
          /\ cuerpo' = e.cuerpo

\* An edit in the grid (app.py:131-135) reruns the script with the edit kept.
Editar(editor) ==
    /\ fase = "completo"
    /\ ediciones < MaxEdiciones
    /\ LET c == Corrida(archivo, cache, texto_busqueda, columna_orden,
                        orden_ascendente) IN
       Mostrar(c, archivo, texto_busqueda, columna_orden, orden_ascendente,
               editor, "edicion", ediciones + 1)
    /\ resultado' = "ninguno"
    /\ SinCorreo

EditarCelda(i, col, v) ==
    /\ i \in 1..Len(df_editado.rows)
    /\ col \in Rango(df_editado.cols)
    /\ v # df_editado.rows[i][col]
    /\ Editar([df_editado EXCEPT !.rows[i][col] = v])

\* num_rows="dynamic": a new row has every cell empty
AgregarFila ==
    /\ Len(df_editado.rows) < MaxFilas
    /\ Editar([df_editado EXCEPT
                 !.rows = Append(@, [c \in Rango(df_editado.cols) |-> Nulo])])

EliminarFila(i) ==
    /\ i \in 1..Len(df_editado.rows)
    /\ Editar([df_editado EXCEPT
                 !.rows = SubSeq(@, 1, i - 1) \o SubSeq(@, i + 1, Len(@))])

\* app.py:137-154.  After a successful save st.rerun() starts the script
\* again at once, with the cache cleared and the widgets as they were.
ClicGuardar(falla) ==
    /\ fase = "completo"
    /\ LET c0 == Corrida(archivo, cache, texto_busqueda, columna_orden,
                         orden_ascendente)
           g  == Guardar(df_editado, archivo, c0.cache, falla)
           c1 == Corrida(g.archivo, g.cache, texto_busqueda, columna_orden,
                         orden_ascendente)
       IN /\ IF g.rerun
             THEN Mostrar(c1, g.archivo, texto_busqueda, columna_orden,
                          orden_ascendente, c1.df, "guardar", ediciones)
             ELSE Mostrar(c0, g.archivo, texto_busqueda, columna_orden,
                          orden_ascendente, df_editado, "guardar", ediciones)
          /\ resultado' = g.resultado
    /\ SinCorreo

Next ==
    \/ NuevaSesion
    \/ \E aguja \in Agujas : CambiarBusqueda(aguja)
    \/ \E col \in OPCIONES_ORDEN, asc \in BOOLEAN : CambiarOrden(col, asc)
    \/ \E falla \in SALIDAS_SMTP : ClicEnviarAlerta(falla)
    \/ \E i \in 1..MaxFilas, col \in Rango(COLUMNAS) \cup {"Notas"} :
          \E v \in ValoresEdicion(col) : EditarCelda(i, col, v)
    \/ AgregarFila
    \/ \E i \in 1..MaxFilas : EliminarFila(i)
    \/ \E falla \in BOOLEAN : ClicGuardar(falla)

Spec == Init /\ [][Next]_vars

----------------------------------------------------------------------------
(* Properties *)

Guardado == evento = "guardar" /\ resultado = "guardado"

\* Number of occurrences of row r in a sequence of rows
Cuenta(rows, r) == Cardinality({i \in 1..Len(rows) : rows[i] = r})

FaltaColumna(df) == \E k \in 1..Len(COLUMNAS) : COLUMNAS[k] \notin Rango(df.cols)

EnterosNoNegativos(rows) ==
    \A i \in 1..Len(rows) : \A k \in 1..Len(NUMERICAS) :
        rows[i][NUMERICAS[k]].t = "int" /\ rows[i][NUMERICAS[k]].n >= 0

\* C1: in every reachable state every record of the in-memory table, and of
\* the persisted store the table was loaded from, has Cantidad, Precio_COP
\* and Stock_Minimo as integers >= 0.
C1_NoNegativos ==
    /\ EnterosNoNegativos(df_inventario.rows)
    /\ cache.msg = "ok" => EnterosNoNegativos(archivo.rows)

\* The table in memory is the table of the file: same columns, same rows,
\* a missing value being an empty field.
IgualAlArchivo(df, a) ==
    /\ a.existe
    /\ df.cols = a.cols
    /\ Len(df.rows) = Len(a.rows)
    /\ \A i \in 1..Len(df.rows) : \A c \in Rango(df.cols) :
          IF df.rows[i][c].t = "nan"
          THEN a.rows[i][c] = Texto(<<>>)
          ELSE a.rows[i][c] = df.rows[i][c]

\* C2: a successful save invalidates the cached snapshot and triggers a fresh
\* load, so that the next render (display, low-stock evaluation, edit grid)
\* uses the table just persisted; any other interaction renders from the same
\* cached snapshot without reading the store.
C2_RecargaTrasGuardar ==
    [][ /\ Guardado' =>
            /\ leyo'
            /\ cache'.valida
            /\ cache'.df = df_inventario'
            /\ IgualAlArchivo(df_inventario', archivo')
            /\ df_editado' = df_inventario'
            /\ fase' = "completo" =>
                  /\ df_filtrado' = VistaFiltrada(df_inventario', texto_busqueda',
                                                  columna_orden', orden_ascendente')
                  /\ \A i \in 1..Len(productos_bajo_stock'.rows) :
                        Cuenta(df_inventario'.rows, productos_bajo_stock'.rows[i]) > 0
        /\ ~Guardado' =>
            /\ ~leyo'
            /\ cache' = cache
            /\ archivo' = archivo
            /\ df_inventario' = cache.df
      ]_vars

C2_Testigo ==
    /\ Guardado
    /\ leyo
    /\ Len(df_inventario.rows) = 2
    /\ df_inventario.rows[2]["Nombre"] = Nulo

\* C3: a save triggered on an edited table that lacks one of the five
\* required columns is refused: the store is unchanged, the cache entry is
\* kept and no reload happens.
C3_ColumnasFaltantes ==
    [][ (evento' = "guardar" /\ FaltaColumna(df_editado)) =>
            /\ resultado' = "columnas_faltantes"
            /\ archivo' = archivo
            /\ cache' = cache
            /\ ~leyo'
            /\ df_inventario' = df_inventario
            /\ df_editado' = df_editado
      ]_vars

C3_Testigo ==
    /\ evento = "guardar"
    /\ resultado = "columnas_faltantes"
    /\ "ID" \notin Rango(df_editado.cols)

BajoStock(r) == r["Cantidad"].n <= r["Stock_Minimo"].n

\* C4: whatever the search text, sort field and direction, the low-stock set
\* holds exactly the records of the full loaded table with Cantidad <=
\* Stock_Minimo, in ascending order of Cantidad; changing the filter or the
\* sort changes neither the table nor the low-stock set.
C4_BajoStock ==
    /\ [](fase = "completo" =>
            /\ df_inventario = cache.df
            /\ productos_bajo_stock.cols = df_inventario.cols
            /\ \A i, j \in 1..Len(productos_bajo_stock.rows) :
                  i < j => productos_bajo_stock.rows[i]["Cantidad"].n
                            <= productos_bajo_stock.rows[j]["Cantidad"].n
            /\ \A r \in Rango(df_inventario.rows) \cup Rango(productos_bajo_stock.rows) :
                  Cuenta(productos_bajo_stock.rows, r) =
                     IF BajoStock(r) THEN Cuenta(df_inventario.rows, r) ELSE 0)
    /\ [][ evento' \in {"busqueda", "orden"} =>
              /\ df_inventario' = df_inventario
              /\ productos_bajo_stock' = productos_bajo_stock
              /\ cache' = cache
              /\ archivo' = archivo
         ]_vars

\* A low-stock record is hidden by the filter, the view is sorted by another
\* field, descending, and the table also holds a record that is not low.
C4_Testigo ==
    /\ fase = "completo"
    /\ texto_busqueda = <<"N">>
    /\ columna_orden = "Precio_COP"
    /\ ~orden_ascendente
    /\ \E i \in 1..Len(productos_bajo_stock.rows) :
          Cuenta(df_filtrado.rows, productos_bajo_stock.rows[i]) = 0
    /\ \E i \in 1..Len(df_inventario.rows) : ~BajoStock(df_inventario.rows[i])

\* C5: with an empty low-stock set the sender is never invoked, no relay
\* connection is opened, nothing is sent and no report is built.
C5_SinEnvioVacio ==
    Empty(productos_bajo_stock) =>
        /\ ~invocado
        /\ conexiones = 0
        /\ ~entregado
        /\ cuerpo = <<>>
        /\ resultado \notin {"correo_enviado", "error_correo"}

\* After an edit was saved the page is drawn in full, the low-stock set is
\* empty and no send button is offered.
C5_Testigo ==
    /\ fase = "completo"
    /\ Empty(productos_bajo_stock)
    /\ ~Empty(df_inventario)
    /\ Guardado
    /\ ediciones > 0

\* C6: filtering any loaded table, records with a missing name included,
\* with the empty needle returns every record in the original order.
C6_AgujaVacia ==
    fase = "completo" =>
        /\ Filtrar(df_inventario, <<>>) = df_inventario
        /\ texto_busqueda = <<>> => Len(df_filtrado.rows) = Len(df_inventario.rows)

\* C7: a send with a non-empty low-stock set opens exactly one connection;
\* a failure at any step is reported as a failed notification, without a
\* second attempt; the script goes on to draw the rest of the page; table,
\* cache, store and grid are unchanged; success is reported only when
\* sendmail completed.
C7_UnIntento ==
    [][ evento' = "alerta" =>
            /\ ~Empty(productos_bajo_stock)
            /\ invocado'
            /\ conexiones' = 1
            /\ resultado' \in {"correo_enviado", "error_correo"}
            /\ resultado' = "correo_enviado" => entregado'
            /\ ~entregado' => resultado' = "error_correo"
            /\ Len(cuerpo') = Len(productos_bajo_stock.rows)
            /\ fase' = "completo"
            /\ df_inventario' = df_inventario
            /\ archivo' = archivo
            /\ cache' = cache
            /\ df_editado' = df_editado
      ]_vars

C7_Testigo ==
    /\ evento = "alerta"
    /\ resultado = "error_correo"
    /\ ~entregado
    /\ conexiones = 1
    /\ fase = "completo"

C10_VacioAbsorbente ==
    /\ [](Empty(df_inventario) =>
            /\ fase = "vacio"
            /\ ~invocado
            /\ evento \in {"inicio", "sesion", "guardar"})
    /\ [][ Empty(df_inventario) =>
              /\ evento' = "sesion"
              /\ fase' = "vacio"
              /\ archivo' = archivo
              /\ cache' = cache
              /\ ~leyo'
              /\ df_inventario' = df_inventario
         ]_vars

\* Every row was deleted in the grid and the save succeeded: the store holds
\* the header only.
C10_Testigo ==
    /\ Empty(df_inventario)
    /\ Guardado
    /\ archivo.existe
    /\ archivo.rows = <<>>
    /\ archivo.cols # <<>>

====
